---- MODULE Spec2Model ----
(***************************************************************************)
(* Model of the Monitor control surface (main.go): the six HTTP handlers   *)
(* Start, Stop, Update, RestoreSave, Commit and IsRunning, the Response    *)
(* envelope they render, and the external collaborators they call          *)
(* (os/exec, go-git, the docker client).                                   *)
(*                                                                         *)
(* A Go string is a sequence of tokens: request data, script output and    *)
(* commit messages are sequences of one-character strings; the literal     *)
(* pieces of a format string and the text of an error are one token each.  *)
(* An interface{} message is a value tagged with its dynamic type.         *)
(***************************************************************************)
EXTENDS Integers, Sequences, FiniteSets, TLC

\* Number of requests the server handles at the same time (one goroutine each).
MaxReq == 2
\* Longest ckey / date form value drawn in the sequential specification.
MaxFormLen == 2
\* Longest captured script output drawn in the sequential specification.
MaxOutLen == 1
\* Longest commit message drawn in the sequential specification.
MaxMsgLen == 4

Requests == 1..MaxReq

BoundedSeq(S, n) == UNION {[1..k -> S] : k \in 0..n}

----------------------------------------------------------------------------
\* Configuration, read once in main and never written afterwards.
Conf ==
  [ StartScript       |-> "start.sh",
    StopScript        |-> "stop.sh",
    UpdateScript      |-> "update.sh",
    RestoreSaveScript |-> "restoresave.sh",
    GitDir            |-> "/srv/repo",
    Container         |-> "bs12" ]

\* Go's nil error, and an error whose Error() text is the token t.
Nil == [nil |-> TRUE, text |-> <<>>]
Err(t) == [nil |-> FALSE, text |-> <<t>>]

\* What cmd.Run / cmd.CombinedOutput can report.
RunErrors == {Nil, Err("exit status 1"), Err("fork/exec: no such file or directory")}
\* What git.PlainOpen, repo.Head, repo.CommitObject can report.
GitErrors == {Nil, Err("repository does not exist"), Err("reference not found")}
\* What Docker.ContainerInspect can report.
DockerErrors == {Nil, Err("No such container"), Err("Cannot connect to the Docker daemon")}

----------------------------------------------------------------------------
\* strings.ToLower, on the ASCII letters.
UpperLetters == <<"A","B","C","D","E","F","G","H","I","J","K","L","M",
                  "N","O","P","Q","R","S","T","U","V","W","X","Y","Z">>
LowerLetters == <<"a","b","c","d","e","f","g","h","i","j","k","l","m",
                  "n","o","p","q","r","s","t","u","v","w","x","y","z">>

LowerRune(c) ==
  IF \E i \in DOMAIN UpperLetters : UpperLetters[i] = c
  THEN LowerLetters[CHOOSE i \in DOMAIN UpperLetters : UpperLetters[i] = c]
  ELSE c

ToLower(s) == [i \in 1..Len(s) |-> LowerRune(s[i])]

\* unicode.IsSpace, on the characters a TLA+ string can hold.
IsSpace(c) == c \in {" ", "\t", "\n", "\f", "\r"}

RECURSIVE TrimLeft(_)
TrimLeft(s) ==
  IF s # <<>> /\ IsSpace(Head(s)) THEN TrimLeft(Tail(s)) ELSE s

RECURSIVE TrimRight(_)
TrimRight(s) ==
  IF s # <<>> /\ IsSpace(s[Len(s)]) THEN TrimRight(SubSeq(s, 1, Len(s) - 1)) ELSE s

\* strings.TrimSpace
TrimSpace(s) == TrimRight(TrimLeft(s))

\* strings.SplitN(s, sep, 2) for a one-character separator: at most two
\* pieces, cut at the first occurrence of sep.
SplitN2(s, sep) ==
  IF \E i \in 1..Len(s) : s[i] = sep
  THEN LET i == CHOOSE k \in 1..Len(s) : s[k] = sep /\ \A j \in 1..(k - 1) : s[j] # sep
       IN  <<SubSeq(s, 1, i - 1), SubSeq(s, i + 1, Len(s))>>
  ELSE <<s>>

\* The %v verb applied to an error: its Error() text.
ErrorText(err) == err.text

----------------------------------------------------------------------------
\* The dynamic type of an interface{} message.
Str(t)  == [type |-> "string", val |-> t]
Bool(b) == [type |-> "bool",   val |-> b]
Map(m)  == [type |-> "map",    val |-> m]

\* NewResponse: the envelope {success, message}.
NewResponse(success, message) == [Success |-> success, Message |-> message]

----------------------------------------------------------------------------
\* time.Time.Format("Mon Jan 02 15:04:05 2006 -0700")
FormatWhen(t) ==
  <<t.weekday, " ", t.month, " ", t.day, " ", t.clock, " ", t.year, " ", t.zone>>

\* plumbing.Hash.String(): two lowercase hex digits per byte.
HexDigits == <<"0","1","2","3","4","5","6","7","8","9","a","b","c","d","e","f">>
RECURSIVE HashString(_)
HashString(h) ==
  IF h = <<>> THEN <<>>
  ELSE <<HexDigits[(Head(h) \div 16) + 1], HexDigits[(Head(h) % 16) + 1]>>
         \o HashString(Tail(h))

SampleWhen ==
  [weekday |-> "Tue", month |-> "Nov", day |-> "03", clock |-> "08:47:00",
   year |-> "2026", zone |-> "+0000"]
SampleHash == <<171, 9>>

CommitOf(msg) == [Message |-> msg, When |-> SampleWhen, Hash |-> SampleHash]
NoCommit == [Message |-> <<>>, When |-> SampleWhen, Hash |-> <<>>]

----------------------------------------------------------------------------
VARIABLES
  pc,        \* pc[r]: where the handler of request r stands
  op,        \* op[r]: the handler the router dispatched request r to
  form,      \* form[r]: the form values of request r
  calls,     \* calls[r]: the external calls request r made, with their results
  rendered   \* rendered[r]: the envelopes request r passed to render.Render

vars == <<pc, op, form, calls, rendered>>

NoForm == [ckey |-> <<>>, date |-> <<>>]

\* One external call: the function, its target, its arguments and, once it
\* has returned, what it returned.
Call(fn, name, args) ==
  [fn |-> fn, name |-> name, args |-> args, returned |-> FALSE,
   err |-> Nil, out |-> <<>>, running |-> FALSE, commit |-> NoCommit]

Init ==
  /\ pc = [r \in Requests |-> "idle"]
  /\ op = [r \in Requests |-> "none"]
  /\ form = [r \in Requests |-> NoForm]
  /\ calls = [r \in Requests |-> <<>>]
  /\ rendered = [r \in Requests |-> <<>>]

\* exec.Command(name, args...) followed by the start of cmd.Run or
\* cmd.CombinedOutput: the process is spawned and the handler blocks.
Exec(r, fn, name, args) ==
  calls' = [calls EXCEPT ![r] = Append(@, Call(fn, name, args))]

\* The last call of request r returns.
Return(r, err, out, running, commit) ==
  calls' = [calls EXCEPT ![r][Len(calls[r])] =
              [@ EXCEPT !.returned = TRUE, !.err = err, !.out = out,
                        !.running = running, !.commit = commit]]

\* render.Render(w, r, resp), after which the handler returns.
Render(r, resp) ==
  /\ rendered' = [rendered EXCEPT ![r] = Append(@, resp)]
  /\ pc' = [pc EXCEPT ![r] = "done"]

----------------------------------------------------------------------------
\* Start: what the handler renders once cmd.Run has returned err.
StartResult(err) ==
  IF err = Nil
  THEN NewResponse(TRUE, Str(<<"Server has been started">>))
  ELSE NewResponse(FALSE, Str(<<"Server failed to start (">> \o ErrorText(err) \o <<")">>))

\* Start, up to the blocking cmd.Run: the start script is spawned.
StartRun(r) ==
  /\ pc[r] = "idle"
  /\ op' = [op EXCEPT ![r] = "Start"]
  /\ Exec(r, "Run", Conf.StartScript, <<>>)
  /\ pc' = [pc EXCEPT ![r] = "Run"]
  /\ UNCHANGED <<form, rendered>>

\* Start that runs the script once more after a first failure.
StartDoneRetry(r, err) ==
  /\ pc[r] = "Run"
  /\ op[r] = "Start"
  /\ IF err # Nil /\ Len(calls[r]) < 2
     THEN /\ calls' = [calls EXCEPT ![r] =
                         Append([@ EXCEPT ![Len(@)].returned = TRUE, ![Len(@)].err = err],
                                Call("Run", Conf.StartScript, <<>>))]
          /\ UNCHANGED <<pc, rendered>>
     ELSE /\ Return(r, err, <<>>, FALSE, NoCommit)
          /\ Render(r, StartResult(err))
  /\ UNCHANGED <<op, form>>

\* Start, from the return of cmd.Run to the end of the handler.
StartDone(r, err) ==
  /\ pc[r] = "Run"
  /\ op[r] = "Start"
  /\ Return(r, err, <<>>, FALSE, NoCommit)
  /\ Render(r, StartResult(err))
  /\ UNCHANGED <<op, form>>

Start(r) ==
  \/ StartRun(r)
  \/ \E err \in RunErrors : StartDone(r, err)

\* Stop: what the handler renders once cmd.Run has returned err.
StopResult(err) ==
  IF err = Nil
  THEN NewResponse(TRUE, Str(<<"Server has been stopped">>))
  ELSE NewResponse(FALSE, Str(<<"Server failed to stop (">> \o ErrorText(err) \o <<")">>))

StopRun(r) ==
  /\ pc[r] = "idle"
  /\ op' = [op EXCEPT ![r] = "Stop"]
  /\ Exec(r, "Run", Conf.StopScript, <<>>)
  /\ pc' = [pc EXCEPT ![r] = "Run"]
  /\ UNCHANGED <<form, rendered>>

StopDone(r, err) ==
  /\ pc[r] = "Run"
  /\ op[r] = "Stop"
  /\ Return(r, err, <<>>, FALSE, NoCommit)
  /\ Render(r, StopResult(err))
  /\ UNCHANGED <<op, form>>

Stop(r) ==
  \/ StopRun(r)
  \/ \E err \in RunErrors : StopDone(r, err)

\* Update with the messages of Start left in place after copying the handler.
UpdateResultCopied(err) ==
  IF err = Nil
  THEN NewResponse(TRUE, Str(<<"Server has been updated">>))
  ELSE NewResponse(FALSE, Str(<<"Server failed to start (">> \o ErrorText(err) \o <<")">>))

\* Update: what the handler renders once cmd.Run has returned err.
UpdateResult(err) ==
  IF err = Nil
  THEN NewResponse(TRUE, Str(<<"Server has been updated">>))
  ELSE NewResponse(FALSE, Str(<<"Server failed to update (">> \o ErrorText(err) \o <<")">>))

\* Update behind a lock: it waits while another update script is running.
UpdateRunSerialised(r) ==
  /\ pc[r] = "idle"
  /\ \A q \in Requests \ {r} : ~(pc[q] = "Run" /\ op[q] = "Update")
  /\ op' = [op EXCEPT ![r] = "Update"]
  /\ Exec(r, "Run", Conf.UpdateScript, <<>>)
  /\ pc' = [pc EXCEPT ![r] = "Run"]
  /\ UNCHANGED <<form, rendered>>

UpdateRun(r) ==
  /\ pc[r] = "idle"
  /\ op' = [op EXCEPT ![r] = "Update"]
  /\ Exec(r, "Run", Conf.UpdateScript, <<>>)
  /\ pc' = [pc EXCEPT ![r] = "Run"]
  /\ UNCHANGED <<form, rendered>>

UpdateDone(r, err) ==
  /\ pc[r] = "Run"
  /\ op[r] = "Update"
  /\ Return(r, err, <<>>, FALSE, NoCommit)
  /\ Render(r, UpdateResult(err))
  /\ UNCHANGED <<op, form>>

Update(r) ==
  \/ UpdateRun(r)
  \/ \E err \in RunErrors : UpdateDone(r, err)

----------------------------------------------------------------------------
\* The validation with "and" in place of "or".
RestoreSaveInvalidBoth(ckey, date) == ckey = <<>> /\ date = <<>>

\* RestoreSave: the validation of the (already lowercased) ckey and the date.
RestoreSaveInvalid(ckey, date) == ckey = <<>> \/ date = <<>>

\* The arguments with the date lowercased like the ckey.
RestoreSaveArgsLowerBoth(rawCkey, rawDate) ==
  LET ckey == ToLower(rawCkey)
      date == ToLower(rawDate)
  IN  <<ckey, date>>

\* RestoreSave: the positional arguments handed to the restore-save script.
RestoreSaveArgs(rawCkey, rawDate) ==
  LET ckey == ToLower(rawCkey)
      date == rawDate
  IN  <<ckey, date>>

\* The result with the captured output dropped from the failure message.
RestoreSaveResultNoOutput(bmessage, err) ==
  LET message == bmessage
  IN  IF err = Nil
      THEN NewResponse(TRUE, Str(message))
      ELSE NewResponse(FALSE, Str(<<"Script failed to run: ">> \o ErrorText(err)))

\* RestoreSave: what the handler renders once cmd.CombinedOutput has
\* returned the captured output and err.
RestoreSaveResult(bmessage, err) ==
  LET message == bmessage
  IN  IF err = Nil
      THEN NewResponse(TRUE, Str(message))
      ELSE NewResponse(FALSE,
             Str(<<"Script failed to run: ">> \o ErrorText(err) \o <<"\n", "\n">> \o message))

\* RestoreSave, up to the early return or the blocking cmd.CombinedOutput.
RestoreSaveRun(r, rawCkey, rawDate) ==
  /\ pc[r] = "idle"
  /\ op' = [op EXCEPT ![r] = "RestoreSave"]
  /\ form' = [form EXCEPT ![r] = [ckey |-> rawCkey, date |-> rawDate]]
  /\ LET args == RestoreSaveArgs(rawCkey, rawDate)
     IN  IF RestoreSaveInvalid(args[1], args[2])
         THEN /\ Render(r, NewResponse(FALSE, Str(<<"Invalid request">>)))
              /\ UNCHANGED calls
         ELSE /\ Exec(r, "CombinedOutput", Conf.RestoreSaveScript, args)
              /\ pc' = [pc EXCEPT ![r] = "CombinedOutput"]
              /\ UNCHANGED rendered

\* RestoreSave, from the return of cmd.CombinedOutput to the end of the handler.
RestoreSaveDone(r, out, err) ==
  /\ pc[r] = "CombinedOutput"
  /\ Return(r, err, out, FALSE, NoCommit)
  /\ Render(r, RestoreSaveResult(out, err))
  /\ UNCHANGED <<op, form>>

RestoreSave(r, ckeys, dates, outs) ==
  \/ \E ckey \in ckeys, date \in dates : RestoreSaveRun(r, ckey, date)
  \/ \E out \in outs, err \in RunErrors : RestoreSaveDone(r, out, err)

----------------------------------------------------------------------------
\* Commit: the summary line of a commit message.
CommitSummary(message) == SplitN2(TrimSpace(message), "\n")[1]

\* Commit: the structured record of a loaded commit.
CommitInfo(commit) ==
  Map([message |-> CommitSummary(commit.Message),
       date    |-> FormatWhen(commit.When),
       sha     |-> HashString(commit.Hash)])

\* Commit: what a failed stage returns.
CommitFailure(prefix, err) ==
  NewResponse(FALSE, Str(<<prefix>> \o ErrorText(err) \o <<")">>))

\* Commit, stage 1: git.PlainOpen(GitDir).
CommitOpen(r, err) ==
  /\ pc[r] = "idle"
  /\ op' = [op EXCEPT ![r] = "Commit"]
  /\ calls' = [calls EXCEPT ![r] =
                 Append(@, [Call("PlainOpen", Conf.GitDir, <<>>)
                              EXCEPT !.returned = TRUE, !.err = err])]
  /\ IF err # Nil
     THEN Render(r, CommitFailure("Failed to open git repo (", err))
     ELSE /\ pc' = [pc EXCEPT ![r] = "Head"]
          /\ UNCHANGED rendered
  /\ UNCHANGED form

\* Stage 2 that goes on to load the commit although repo.Head() failed.
CommitHeadGoesOn(r, err) ==
  /\ pc[r] = "Head"
  /\ calls' = [calls EXCEPT ![r] =
                 Append(@, [Call("Head", Conf.GitDir, <<>>)
                              EXCEPT !.returned = TRUE, !.err = err])]
  /\ pc' = [pc EXCEPT ![r] = "CommitObject"]
  /\ UNCHANGED <<op, form, rendered>>

\* Commit, stage 2: repo.Head().
CommitHead(r, err) ==
  /\ pc[r] = "Head"
  /\ calls' = [calls EXCEPT ![r] =
                 Append(@, [Call("Head", Conf.GitDir, <<>>)
                              EXCEPT !.returned = TRUE, !.err = err])]
  /\ IF err # Nil
     THEN Render(r, CommitFailure("Failed to get HEAD ref (", err))
     ELSE /\ pc' = [pc EXCEPT ![r] = "CommitObject"]
          /\ UNCHANGED rendered
  /\ UNCHANGED <<op, form>>

\* Commit, stage 3: repo.CommitObject(head.Hash()), then the record.
CommitObject(r, err, commit) ==
  /\ pc[r] = "CommitObject"
  /\ calls' = [calls EXCEPT ![r] =
                 Append(@, [Call("CommitObject", Conf.GitDir, <<>>)
                              EXCEPT !.returned = TRUE, !.err = err,
                                     !.commit = IF err = Nil THEN commit ELSE NoCommit])]
  /\ IF err # Nil
     THEN Render(r, CommitFailure("Failed to get HEAD commit (", err))
     ELSE Render(r, NewResponse(TRUE, CommitInfo(commit)))
  /\ UNCHANGED <<op, form>>

Commit(r, msgs) ==
  \/ \E err \in GitErrors : CommitOpen(r, err)
  \/ \E err \in GitErrors : CommitHead(r, err)
  \/ \E err \in GitErrors, msg \in msgs : CommitObject(r, err, CommitOf(msg))

----------------------------------------------------------------------------
\* IsRunning that reports an inspection error as a failure.
IsRunningResultSurfacesError(err, infoRunning) ==
  LET running == IF err # Nil \/ infoRunning = FALSE THEN FALSE ELSE TRUE
  IN  IF err # Nil THEN NewResponse(FALSE, Bool(running)) ELSE NewResponse(TRUE, Bool(running))

\* IsRunning that looks at the reported state only, not at the error.
IsRunningResultIgnoresError(err, infoRunning) ==
  LET running == IF infoRunning = FALSE THEN FALSE ELSE TRUE
  IN  NewResponse(TRUE, Bool(running))

\* IsRunning: what the handler renders for the result of ContainerInspect.
IsRunningResult(err, infoRunning) ==
  LET running == IF err # Nil \/ infoRunning = FALSE THEN FALSE ELSE TRUE
  IN  NewResponse(TRUE, Bool(running))

\* IsRunning: Docker.ContainerInspect(Container) and the rendering.
IsRunning(r, err, infoRunning) ==
  /\ pc[r] = "idle"
  /\ op' = [op EXCEPT ![r] = "IsRunning"]
  /\ calls' = [calls EXCEPT ![r] =
                 Append(@, [Call("ContainerInspect", Conf.Container, <<>>)
                              EXCEPT !.returned = TRUE, !.err = err,
                                     !.running = infoRunning])]
  /\ Render(r, IsRunningResult(err, infoRunning))
  /\ UNCHANGED form

----------------------------------------------------------------------------
\* The server writes the rendered envelope to the connection; the request
\* is over and the next one can be routed.
Serve(r) ==
  /\ pc[r] = "done"
  /\ pc' = [pc EXCEPT ![r] = "idle"]
  /\ op' = [op EXCEPT ![r] = "none"]
  /\ form' = [form EXCEPT ![r] = NoForm]
  /\ calls' = [calls EXCEPT ![r] = <<>>]
  /\ rendered' = [rendered EXCEPT ![r] = <<>>]

----------------------------------------------------------------------------
\* Request data of the concurrent specification.
Alice == <<"A", "l", "i", "c", "e">>
FixBug == <<"F", "i", "x", " ", "b", "u", "g", "\n", "\n", "b", "o", "d", "y">>
SampleCkeys == {<<>>, Alice}
SampleDates == {<<>>, <<"2", "0", "1", "9", "-", "D", "e", "c">>}
SampleOuts == {<<>>, <<"o", "k", "\n">>}
SampleMsgs == {FixBug}

\* Any number of requests in flight, each on a goroutine of its own.
Next ==
  \E r \in Requests :
    \/ Start(r)
    \/ Stop(r)
    \/ Update(r)
    \/ RestoreSave(r, SampleCkeys, SampleDates, SampleOuts)
    \/ Commit(r, SampleMsgs)
    \/ \E err \in DockerErrors, running \in BOOLEAN : IsRunning(r, err, running)
    \/ Serve(r)

Spec == Init /\ [][Next]_vars

\* Request data of the sequential specification.
Ckeys == BoundedSeq({"A", "a"}, MaxFormLen) \cup {Alice}
Dates == BoundedSeq({"D", "1"}, MaxFormLen)
Outs == BoundedSeq({"o", "\n"}, MaxOutLen)
Msgs == BoundedSeq({"F", " ", "\n"}, MaxMsgLen) \cup {FixBug}

\* One request at a time, over all request data within the bounds.
NextSeq ==
  \/ Start(1)
  \/ Stop(1)
  \/ Update(1)
  \/ RestoreSave(1, Ckeys, Dates, Outs)
  \/ Commit(1, Msgs)
  \/ \E err \in DockerErrors, running \in BOOLEAN : IsRunning(1, err, running)
  \/ Serve(1)

SpecSeq == Init /\ [][NextSeq]_vars

----------------------------------------------------------------------------
\* The envelope a handler rendered, when it rendered exactly one.
Envelope(r) == rendered[r][1]

StringEnvelope(success, text) ==
  [Success |-> success, Message |-> [type |-> "string", val |-> text]]

\* C1: Start, Stop and Update each run their own configured script with no
\* arguments, exactly once; when the script has exited the one envelope is
\* success with the fixed message of the action if the runner reported no
\* error, and failure with "Server failed to <verb> (<error>)" otherwise.
C1_ScriptHandlers ==
  \A r \in Requests :
    op[r] \in {"Start", "Stop", "Update"} =>
      LET script == CASE op[r] = "Start"  -> Conf.StartScript
                      [] op[r] = "Stop"   -> Conf.StopScript
                      [] op[r] = "Update" -> Conf.UpdateScript
          good   == CASE op[r] = "Start"  -> "Server has been started"
                      [] op[r] = "Stop"   -> "Server has been stopped"
                      [] op[r] = "Update" -> "Server has been updated"
          bad    == CASE op[r] = "Start"  -> "Server failed to start ("
                      [] op[r] = "Stop"   -> "Server failed to stop ("
                      [] op[r] = "Update" -> "Server failed to update ("
          c      == calls[r][1]
      IN  /\ pc[r] \in {"Run", "done"}
          /\ Len(calls[r]) = 1
          /\ c.fn = "Run" /\ c.name = script /\ c.args = <<>>
          /\ pc[r] = "Run" => ~c.returned /\ rendered[r] = <<>>
          /\ pc[r] = "done" =>
               /\ c.returned
               /\ rendered[r] =
                    << IF c.err.nil
                       THEN StringEnvelope(TRUE, <<good>>)
                       ELSE StringEnvelope(FALSE, <<bad>> \o c.err.text \o <<")">>) >>

\* C1 witness: an update whose script failed next to a stop whose script succeeded.
C1_Witness ==
  \E r, q \in Requests :
    /\ op[r] = "Update" /\ pc[r] = "done" /\ ~calls[r][1].err.nil
    /\ op[q] = "Stop" /\ pc[q] = "done" /\ calls[q][1].err.nil

\* C5: IsRunning always renders success=true with a boolean message, which
\* is true exactly when ContainerInspect returned no error and a status
\* with running=true.
C5_IsRunning ==
  \A r \in Requests :
    op[r] = "IsRunning" =>
      /\ pc[r] = "done"
      /\ Len(calls[r]) = 1
      /\ calls[r][1].fn = "ContainerInspect"
      /\ calls[r][1].name = Conf.Container
      /\ rendered[r] =
           << [Success |-> TRUE,
               Message |-> [type |-> "bool",
                            val |-> (calls[r][1].err.nil /\ calls[r][1].running)]] >>

\* C5 witness: the provider returned an error and the envelope still says success.
C5_Witness ==
  \E r \in Requests :
    /\ op[r] = "IsRunning"
    /\ ~calls[r][1].err.nil
    /\ rendered[r] # <<>>
    /\ Envelope(r).Success
    /\ Envelope(r).Message.val = FALSE

\* C6: Commit opens the repository, resolves HEAD and loads the commit, in
\* that order; the first stage that fails ends the handler with
\* success=false and the message of that stage, no later stage is called;
\* success=true with the commit record needs all three stages to succeed.
C6_Stages == <<"PlainOpen", "Head", "CommitObject">>
C6_CommitStages ==
  \A r \in Requests :
    op[r] = "Commit" =>
      LET n      == Len(calls[r])
          failed == ~calls[r][n].err.nil
          prefix == <<"Failed to open git repo (", "Failed to get HEAD ref (",
                      "Failed to get HEAD commit (">>
      IN  /\ n \in 1..3
          /\ \A i \in 1..n : calls[r][i].fn = C6_Stages[i] /\ calls[r][i].returned
          /\ \A i \in 1..(n - 1) : calls[r][i].err.nil
          /\ pc[r] = "done" <=> (failed \/ n = 3)
          /\ pc[r] # "done" => rendered[r] = <<>> /\ pc[r] = C6_Stages[n + 1]
          /\ pc[r] = "done" /\ failed =>
               rendered[r] =
                 << StringEnvelope(FALSE, <<prefix[n]>> \o calls[r][n].err.text \o <<")">>) >>
          /\ pc[r] = "done" /\ ~failed =>
               /\ Len(rendered[r]) = 1
               /\ Envelope(r).Success
               /\ Envelope(r).Message.type = "map"
               /\ DOMAIN Envelope(r).Message.val = {"message", "date", "sha"}

\* C6 witness: HEAD could not be resolved after the repository opened.
C6_Witness ==
  \E r \in Requests :
    /\ op[r] = "Commit" /\ pc[r] = "done"
    /\ Len(calls[r]) = 2
    /\ ~calls[r][2].err.nil

\* C8: an envelope with success=false carries a string message; boolean and
\* structured messages occur only with success=true.
C8_FailureIsString ==
  \A r \in Requests :
    \A i \in 1..Len(rendered[r]) :
      LET e == rendered[r][i]
      IN  /\ e.Message.type \in {"string", "bool", "map"}
          /\ ~e.Success => e.Message.type = "string"
          /\ e.Message.type \in {"bool", "map"} => e.Success

\* C8 witness: a failure envelope next to a boolean one.
C8_Witness ==
  \E r, q \in Requests :
    /\ rendered[r] # <<>> /\ ~Envelope(r).Success
    /\ rendered[q] # <<>> /\ Envelope(q).Message.type = "bool"

----------------------------------------------------------------------------
\* C2: a RestoreSave request with an empty ckey or an empty date (or both)
\* gets exactly success=false, "Invalid request", and the runner is never
\* invoked for it; with both fields non-empty the runner is invoked.
C2_Validation ==
  \A r \in Requests :
    op[r] = "RestoreSave" =>
      IF form[r].ckey = <<>> \/ form[r].date = <<>>
      THEN /\ pc[r] = "done"
           /\ calls[r] = <<>>
           /\ rendered[r] = << StringEnvelope(FALSE, <<"Invalid request">>) >>
      ELSE /\ Len(calls[r]) = 1
           /\ calls[r][1].fn = "CombinedOutput"

\* C2 witness: a request rejected for its empty date alone.
C2_Witness ==
  \E r \in Requests :
    /\ op[r] = "RestoreSave" /\ pc[r] = "done"
    /\ form[r].ckey # <<>> /\ form[r].date = <<>>
    /\ calls[r] = <<>>

\* C3: a valid RestoreSave request runs the configured restore-save script
\* with exactly two arguments: the ckey in lowercase, then the date exactly
\* as received; "Alice" is passed as "alice".
C3_Arguments ==
  \A r \in Requests :
    op[r] = "RestoreSave" /\ form[r].ckey # <<>> /\ form[r].date # <<>> =>
      LET c    == calls[r][1]
          ckey == form[r].ckey
      IN  /\ c.name = Conf.RestoreSaveScript
          /\ Len(c.args) = 2
          /\ Len(c.args[1]) = Len(ckey)
          /\ \A i \in 1..Len(ckey) :
               c.args[1][i] = (IF ckey[i] = "A" THEN "a" ELSE ckey[i])
          /\ ckey = Alice => c.args[1] = <<"a", "l", "i", "c", "e">>
          /\ c.args[2] = form[r].date

\* C3 witness: "Alice" sent with a date that holds an uppercase letter.
C3_Witness ==
  \E r \in Requests :
    /\ op[r] = "RestoreSave" /\ pc[r] = "CombinedOutput"
    /\ form[r].ckey = Alice
    /\ form[r].date = <<"D", "1">>

\* C4: once the script of a valid RestoreSave request has exited with
\* captured output o, the envelope is success=true with message o if the
\* runner reported no error, and success=false with message
\* "Script failed to run: " e, two line breaks, o if it reported error e.
C4_Result ==
  \A r \in Requests :
    op[r] = "RestoreSave" /\ pc[r] = "done" /\ calls[r] # <<>> =>
      LET c == calls[r][1]
      IN  /\ c.returned
          /\ rendered[r] =
               << IF c.err.nil
                  THEN StringEnvelope(TRUE, c.out)
                  ELSE StringEnvelope(FALSE,
                         <<"Script failed to run: ">> \o c.err.text \o <<"\n", "\n">> \o c.out) >>

\* C4 witness: the script failed after printing something.
C4_Witness ==
  \E r \in Requests :
    /\ op[r] = "RestoreSave" /\ pc[r] = "done" /\ calls[r] # <<>>
    /\ ~calls[r][1].err.nil
    /\ calls[r][1].out # <<>>

\* C7: the message reported by a successful Commit is the first line of
\* the commit message with surrounding whitespace trimmed: it holds no line
\* break, neither starts nor ends with whitespace, and is "Fix bug" for
\* "Fix bug\n\n<body>".
C7_FirstLineTrimmed ==
  \A r \in Requests :
    op[r] = "Commit" /\ pc[r] = "done" /\ Envelope(r).Success =>
      LET message == calls[r][3].commit.Message
          got     == Envelope(r).Message.val.message
      IN  /\ \A i \in 1..Len(got) : got[i] # "\n"
          /\ got # <<>> => ~IsSpace(got[1]) /\ ~IsSpace(got[Len(got)])
          /\ message = FixBug => got = <<"F", "i", "x", " ", "b", "u", "g">>

----------------------------------------------------------------------------
\* The requests whose handler runs a script.
RunsScript(r) == op[r] \in {"Start", "Stop", "Update", "RestoreSave"}
InFlight(r) == pc[r] \in {"Run", "CombinedOutput"}

\* C9: concurrent requests for a mutating operation are neither
\* deduplicated nor serialised: every request in flight has a script
\* invocation of its own that is still running, whatever the other requests
\* do; a request that has arrived can always invoke its script and a running
\* one can always finish, so none waits for or is rejected because of
\* another; and the envelope of a request reports the outcome of its own
\* invocation.
C9_NoDedupNoSerialise ==
  \A r \in Requests :
    /\ InFlight(r) =>
         /\ RunsScript(r)
         /\ Len(calls[r]) = 1
         /\ ~calls[r][1].returned
         /\ rendered[r] = <<>>
    /\ pc[r] = "idle" =>
         /\ ENABLED StartRun(r)
         /\ ENABLED StopRun(r)
         /\ ENABLED UpdateRun(r)
         /\ ENABLED RestoreSaveRun(r, Alice, <<"D">>)
    /\ pc[r] = "Run" =>
         \A err \in RunErrors :
           ENABLED (StartDone(r, err) \/ StopDone(r, err) \/ UpdateDone(r, err))
    /\ pc[r] = "CombinedOutput" =>
         \A err \in RunErrors : ENABLED RestoreSaveDone(r, <<>>, err)
    /\ RunsScript(r) /\ pc[r] = "done" /\ calls[r] # <<>> =>
         /\ Len(rendered[r]) = 1
         /\ Envelope(r).Success = calls[r][1].err.nil

\* C9 witness: the update scripts of two requests running at the same time.
C9_Witness ==
  \E r, q \in Requests :
    /\ r # q
    /\ op[r] = "Update" /\ pc[r] = "Run" /\ ~calls[r][1].returned
    /\ op[q] = "Update" /\ pc[q] = "Run" /\ ~calls[q][1].returned

\* C10: no retry: a request to Start, Stop, Update or RestoreSave invokes
\* the runner at most once; when that invocation has failed the handler has
\* made no further one and has reported the failure once, in its own
\* envelope; the server then goes on: the request can be answered and
\* every idle request can still be dispatched.
C10_NoRetry ==
  \A r \in Requests :
    RunsScript(r) =>
      /\ Len(calls[r]) <= 1
      /\ Len(rendered[r]) <= 1
      /\ calls[r] # <<>> /\ calls[r][1].returned /\ ~calls[r][1].err.nil =>
           /\ pc[r] = "done"
           /\ Len(rendered[r]) = 1
           /\ ~Envelope(r).Success
           /\ ENABLED Serve(r)
           /\ \A q \in Requests :
                pc[q] = "idle" =>
                  /\ ENABLED StartRun(q)
                  /\ ENABLED RestoreSaveRun(q, Alice, <<"D">>)

\* C10 witness: a failed start reported while another request is being handled.
C10_Witness ==
  \E r, q \in Requests :
    /\ op[r] = "Start" /\ pc[r] = "done"
    /\ ~calls[r][1].err.nil
    /\ ~Envelope(r).Success
    /\ op[q] = "RestoreSave" /\ pc[q] = "CombinedOutput"

====
